---- MODULE Spec2Model ----
(***************************************************************************)
(* Model of ra-client/src/verifier.rs: the attested-certificate verifier   *)
(* EnclaveCertVerifier (constructor, verify_cert pipeline, the two rustls  *)
(* adapters).  Byte strings that the code hands to a parser are modelled   *)
(* by the structure the parser recovers from them plus the ways in which   *)
(* parsing can fail; signatures are modelled symbolically as the pair      *)
(* (signing key, signed bytes).                                            *)
(***************************************************************************)
EXTENDS Integers, Sequences, FiniteSets, TLC

VARIABLES verifier, call, threads

vars == <<verifier, call, threads>>

(***************************************************************************)
(* Bounds of the model.                                                    *)
(***************************************************************************)
\* Instants run from one tick before the epoch to MaxTime, counted in ticks
\* (sub-second units).
MaxTime == 5
\* Ticks per second: DateTime<Utc> is finer than the whole seconds of
\* timestamp().
TicksPerSec == 2
\* Longest certificate chain presented to a TLS adapter.
MaxChain == 2
\* Modelled length of the cpu_svn byte vector (first byte + the rest).
CpuSvnLen == 2
\* Modelled length of mr_signer / mr_enclave.
MrLen == 2

(***************************************************************************)
(* Program constants.                                                      *)
(***************************************************************************)
\* verifier.rs:231  public_key.len() != 65
PublicKeyLen == 65
\* verifier.rs:232  public_key[0] != 4
Sec1Uncompressed == 4
\* verifier.rs:400  report_validity_secs: 86400 (the configuration of the
\* tests)
TestReportValiditySecs == 86400
\* verifier.rs:233 compares public_key[1..] with the whole report_data
ReportDataLen == PublicKeyLen - 1

Instants == (0 - 1)..MaxTime

\* Option<T> is the set of its members: {} is None, {x} is Some(x).
None == {}
Some(x) == {x}

\* Result<T, E>
Ok(v) == [ok |-> TRUE, val |-> v]
Err(e) == [ok |-> FALSE, err |-> e]

\* An EnclaveCertVerifierError: its variant and the variant's payload.
Error(kind, detail) == [kind |-> kind, detail |-> detail]


(***************************************************************************)
(* Library behaviour the verifier relies on (chrono, serde_json, rustls    *)
(* pemfile, webpki, x509-parser), modelled at the verifier's call sites.   *)
(***************************************************************************)

\* chrono DateTime::timestamp(): whole seconds of an instant (floor).
timestamp(t) == t \div TicksPerSec

\* The modulus of the cast `as u64`: 2^64 in the code, here at the width
\* of the integers of the model checker.  What is kept of it: a negative
\* count of seconds becomes a time later than every date of a certificate.
U64_MODULUS == 2^30

\* n as u64, of an i64: negative values wrap.
as_u64(n) == n % U64_MODULUS

\* chrono Duration::seconds(n) in ticks.
DurationSeconds(n) == n * TicksPerSec

\* The last instant a DateTime<Utc> can hold (chrono's MAX_DATETIME), on the
\* scale of the model: later than every instant of a call, and a timestamp
\* text can denote it.
MAX_DATETIME == MaxTime + 2 * DurationSeconds(TestReportValiditySecs)

\* DateTime<Utc> + Duration: the sum, or a panic when it lies beyond the
\* range of DateTime.
DateTimeAdd(t, d) ==
    IF t + d > MAX_DATETIME
    THEN Err("DateTime + Duration overflowed")
    ELSE Ok(t + d)

\* Lexicographic order of two byte arrays of equal length (Rust's `>` on
\* [u8; N]): decided at the first index at which they differ.
ArrayGreater(a, b) ==
    \E i \in 1..Len(a) :
        /\ a[i] > b[i]
        /\ \A j \in 1..(i - 1) : a[j] = b[j]

\* x509_parser::parse_x509_der on the peer certificate bytes.
parse_x509_der(certificate) ==
    IF certificate.der
    THEN Ok([not_before |-> certificate.not_before,
             not_after |-> certificate.not_after,
             subject_public_key |-> certificate.subject_public_key,
             extensions |-> certificate.extensions])
    ELSE Err("parse error")

\* The OID of the attestation report extension (ra_common constant).
OID_EXTENSION_ATTESTATION_REPORT == "attestation-report-oid"

\* serde_json::from_slice::<AttestationReport>: the three fields of the
\* envelope, the body kept as the bytes that were delivered.
from_slice_AttestationReport(bytes) ==
    IF bytes.json
    THEN Ok([body |-> bytes.body,
             signature |-> bytes.signature,
             signing_cert |-> bytes.signing_cert])
    ELSE Err("invalid envelope json")

\* rustls::internal::pemfile::certs: the DER blocks of a PEM file, or an
\* error when a block's base64 does not decode.
certs(pem) == IF pem.base64 THEN Ok(pem.blocks) ELSE Err("pem")

\* webpki::EndEntityCert::from
EndEntityCert_from(der) == IF der.x509 THEN Ok(der) ELSE Err("BadDER")

\* webpki check_validity, at a time in whole seconds; notAfter is
\* inclusive there.  The two dates are decoded first (der::time_choice),
\* and a date before 1970 does not decode.
check_validity(c, time) ==
    IF c.not_before < 0 \/ c.not_after < 0 THEN Err("BadDERTime")
    ELSE IF c.not_before > c.not_after THEN Err("InvalidCertValidity")
    ELSE IF time < c.not_before THEN Err("CertNotValidYet")
    ELSE IF time > c.not_after THEN Err("CertExpired")
    ELSE Ok("valid")

WebpkiValidAt(c, time) == check_validity(c, time).ok

\* webpki MAX_SUB_CA_COUNT: the most CA certificates below a CA of a path.
MAX_SUB_CA_COUNT == 6

\* webpki check_issuer_independent_properties: validity, then basic
\* constraints against the role the certificate is used in (for a CA, its
\* path length constraint against the number of CAs below it), then the
\* extended key usage, which must hold serverAuth when it is present.
check_issuer_independent_properties(c, time, used_as_ca, sub_ca_count) ==
    IF ~check_validity(c, time).ok THEN check_validity(c, time)
    ELSE IF ~used_as_ca /\ c.ca THEN Err("CAUsedAsEndEntity")
    ELSE IF used_as_ca /\ ~c.ca THEN Err("EndEntityUsedAsCA")
    ELSE IF used_as_ca /\ \E len \in c.path_len : sub_ca_count > len
    THEN Err("PathLenConstraintViolated")
    ELSE IF \E eku \in c.eku : "serverAuth" \notin eku
    THEN Err("RequiredEKUNotFound")
    ELSE Ok("valid")

\* webpki::ECDSA_P256_SHA256
ECDSA_P256_SHA256 ==
    [name |-> "ECDSA_P256_SHA256", public_key_alg |-> "ecdsa-p256",
     min_bits |-> 256, max_bits |-> 256]

\* webpki::RSA_PKCS1_2048_8192_SHA256
RSA_PKCS1_2048_8192_SHA256 ==
    [name |-> "RSA_PKCS1_2048_8192_SHA256", public_key_alg |-> "rsa",
     min_bits |-> 2048, max_bits |-> 8192]

\* static SUPPORTED_SIG_ALGS
SUPPORTED_SIG_ALGS == {ECDSA_P256_SHA256, RSA_PKCS1_2048_8192_SHA256}

\* webpki check_signatures, for one certificate of the path: its signature
\* is of a supported algorithm whose key type and key sizes are those of
\* the issuer's key, and was made with that key.
check_signature(c, issuer) ==
    \E alg \in SUPPORTED_SIG_ALGS :
        /\ alg.name = c.signature_alg
        /\ alg.public_key_alg = issuer.key_alg
        /\ alg.min_bits <= issuer.key_bits
        /\ issuer.key_bits <= alg.max_bits
        /\ c.signed_by = issuer.key

\* webpki check_name_constraints: the names of the certificates of the path
\* below the issuer are all permitted by the issuer's name constraints.
check_name_constraints(issuer, names) ==
    \A permitted \in issuer.name_constraints : names \subseteq permitted

\* The subject and public key by which build_chain knows a certificate of
\* the path.
PathEntry(c) == [subject |-> c.subject, key |-> c.key]

\* webpki build_chain: c has the properties of its role, is not too deep
\* in the path, and chains to a trust anchor, directly or through an
\* intermediate (used as CA).  A potential issuer whose subject and public
\* key are those of a certificate already on the path, c included, is
\* refused ("Prevent loops; see RFC 4158 section 5.2").  below holds the
\* certificates of the path under c.
RECURSIVE BuildChain(_, _, _, _, _, _, _)
BuildChain(c, used_as_ca, sub_ca_count, below, intermediates, anchors, time) ==
    LET path == below \cup {PathEntry(c)}
        names == {p.subject : p \in path}
    IN
    /\ check_issuer_independent_properties(c, time, used_as_ca, sub_ca_count).ok
    /\ used_as_ca => sub_ca_count < MAX_SUB_CA_COUNT
    /\ \/ \E a \in anchors :
             /\ a.subject = c.issuer
             /\ check_name_constraints(a, names)
             /\ check_signature(c, a)
       \/ \E i \in intermediates :
             /\ i.x509
             /\ i.subject = c.issuer
             /\ PathEntry(i) \notin path
             /\ check_name_constraints(i, names)
             /\ check_signature(c, i)
             /\ BuildChain(i, TRUE,
                           IF used_as_ca THEN sub_ca_count + 1 ELSE sub_ca_count,
                           path, intermediates, anchors, time)

\* EndEntityCert::verify_is_valid_tls_server_cert (webpki 0.21): an error
\* of the end entity's own properties is returned as it is; a path that
\* cannot be built, for whatever reason further up, is UnknownIssuer.
verify_is_valid_tls_server_cert(ee, anchors, intermediates, time) ==
    IF ~check_issuer_independent_properties(ee, time, FALSE, 0).ok
    THEN check_issuer_independent_properties(ee, time, FALSE, 0)
    ELSE IF BuildChain(ee, FALSE, 0, {}, intermediates, anchors, time)
    THEN Ok("valid")
    ELSE Err("UnknownIssuer")

\* EndEntityCert::verify_signature(signature_alg, msg, signature): the
\* certificate's key must be of the algorithm's key type; the signature
\* verifies when it was made with that key, of an accepted size, over
\* exactly msg with the algorithm's padding and digest.
verify_signature(ee, signature_alg, msg, signature) ==
    IF ee.key_alg /= signature_alg.public_key_alg
    THEN Err("UnsupportedSignatureAlgorithmForPublicKey")
    ELSE IF /\ signature.key = ee.key
            /\ signature.msg = msg
            /\ signature.alg = signature_alg.name
            /\ signature_alg.min_bits <= ee.key_bits
            /\ ee.key_bits <= signature_alg.max_bits
    THEN Ok("verified")
    ELSE Err("InvalidSignatureForPublicKey")

\* rustls RootCertStore::add_pem_file: a PEM that does not decode is an
\* error; every decoded block that is a certificate becomes a trust anchor,
\* the others are only counted as invalid.
add_pem_file(pem) ==
    IF ~pem.base64
    THEN Err("pem")
    ELSE Ok({[subject |-> pem.blocks[i].subject, key |-> pem.blocks[i].key,
              key_alg |-> pem.blocks[i].key_alg,
              key_bits |-> pem.blocks[i].key_bits,
              name_constraints |-> pem.blocks[i].name_constraints] :
                i \in {j \in 1..Len(pem.blocks) : pem.blocks[j].x509}})

\* serde_json::from_slice::<AttestationReportBody>: the fields of the body;
\* the layout of the JSON text (whitespace, key order) is not kept.
from_slice_AttestationReportBody(bytes) ==
    IF bytes.json
    THEN Ok([timestamp |-> bytes.timestamp,
             isv_enclave_quote_status |-> bytes.isv_enclave_quote_status,
             isv_enclave_quote_body |-> bytes.isv_enclave_quote_body])
    ELSE Err("invalid body json")

\* String::push_str on a timestamp text: the text is its date part, the
\* instant the date part denotes, and whatever follows the date part.
push_str(text, suffix) == [text EXCEPT !.zone = text.zone \o suffix]

\* str::parse::<DateTime<Utc>>: a well-formed date followed by exactly one
\* UTC offset.
parse_DateTime(text) ==
    IF text.date = "iso" /\ text.zone = "+00:00"
    THEN Ok(text.instant)
    ELSE Err("chrono::ParseError")

\* The status literals EnclaveQuoteStatus::from_str recognizes (ra_common).
RecognizedStatuses ==
    {"OK", "CONFIGURATION_AND_SW_HARDENING_NEEDED", "GROUP_OUT_OF_DATE",
     "SW_HARDENING_NEEDED", "CONFIGURATION_NEEDED"}

\* str::parse::<EnclaveQuoteStatus> (ra_common).
parse_EnclaveQuoteStatus(literal) ==
    IF literal \in RecognizedStatuses THEN Ok(literal) ELSE Err(literal)

\* AttestationReportBody::get_quote (ra_common): base64-decodes the quote
\* body and reads the fixed layout.
get_quote(body) ==
    LET q == body.isv_enclave_quote_body IN
    IF q.decodes
    THEN Ok([report_body |->
               [report_data |-> q.report_data,
                measurement |-> [mr_signer |-> q.mr_signer,
                                 mr_enclave |-> q.mr_enclave],
                cpu_svn |-> q.cpu_svn,
                isv_svn |-> q.isv_svn]])
    ELSE Err("quote")

(***************************************************************************)
(* Outcome of a verification: Result<_, EnclaveCertVerifierError> together *)
(* with the checks the call performed, in the order it performed them, and *)
(* for a time-dependent check the instant it was evaluated at.             *)
(***************************************************************************)
NoTime == 0 - (MaxTime + 1)
NoError == Error("", "")
NoValue == <<>>

Step(check) == [check |-> check, at |-> NoTime]
TimedStep(check, t) == [check |-> check, at |-> t]

Accept(v, steps) == [ok |-> TRUE, err |-> NoError, val |-> v, steps |-> steps]
Reject(e, steps) == [ok |-> FALSE, err |-> e, val |-> NoValue, steps |-> steps]

\* The call does not return: an index or slice expression out of range, or
\* a DateTime sum beyond the range of DateTime, panics and unwinds through
\* verify_cert.
Panic(msg, steps) == Reject(Error("panic", msg), steps)

\* s[i] on a slice, i counted from 0: the element, or a panic when i is not
\* below s.len().
index(s, i) ==
    IF i < Len(s) THEN Ok(s[i + 1]) ELSE Err("index out of bounds")

\* s[k..] on a slice: the elements from the k-th on (none when k = s.len()),
\* or a panic when k is above s.len().
slice_from(s, k) ==
    IF k <= Len(s) THEN Ok(SubSeq(s, k + 1, Len(s)))
    ELSE Err("range start index out of range for slice")

\* An index or slice expression the call evaluated, and its value.
Read(expr, value) == [expr |-> expr, value |-> value]

\* The reads as steps of the call.
ReadSteps(reads) == [i \in 1..Len(reads) |-> Step(reads[i].expr)]

(***************************************************************************)
(* EnclaveCertVerifier                                                     *)
(***************************************************************************)

\* verify_cert: now_sec < not_before.timestamp()
CertificateNotBegun(now_sec, not_before) == now_sec < not_before

\* CertificateHasExpired with not_after taken as inclusive.
CertificateHasExpired_Inclusive(now_sec, not_after) == now_sec > not_after

\* verify_cert: now_sec >= not_after.timestamp()
CertificateHasExpired(now_sec, not_after) == now_sec >= not_after

\* verify_attestation_report_body: .. < now, of the sum
\* attestation_report_time + self.report_validity_duration
ReportTooOld(expiry, now) == expiry < now

\* StatusNotAccepted with the configured set forgotten: any status the
\* parser recognizes passes.
StatusNotAccepted_AnyRecognized(valid_enclave_quote_statuses, status) ==
    status \notin RecognizedStatuses

\* verify_attestation_report_body:
\* !self.valid_enclave_quote_statuses.contains(&status)
StatusNotAccepted(valid_enclave_quote_statuses, status) ==
    status \notin valid_enclave_quote_statuses

\* The index and slice expressions on public_key that the key test
\*   public_key.len() != 65 || public_key[0] != 4 || public_key[1..] != ..
\* evaluates, in order: || does not evaluate its right operand when the
\* left one is true.
PublicKeyReads(public_key) ==
    IF Len(public_key) /= PublicKeyLen THEN <<>>
    ELSE LET tag == index(public_key, 0) IN
         <<Read("public_key[0]", tag)>>
         \o (IF tag.ok /\ tag.val = Sec1Uncompressed
             THEN <<Read("public_key[1..]", slice_from(public_key, 1))>>
             ELSE <<>>)

\* PublicKeyMismatches without the test of the SEC1 tag byte.
PublicKeyMismatches_NoTag(public_key, report_data) ==
    \/ Len(public_key) /= PublicKeyLen
    \/ Tail(public_key) /= report_data

\* verify_attestation_report_body: public_key.len() != 65
\*     || public_key[0] != 4 || public_key[1..] != quote...report_data[..]
PublicKeyMismatches(public_key, report_data) ==
    \/ Len(public_key) /= PublicKeyLen
    \/ public_key[1] /= Sec1Uncompressed
    \/ Tail(public_key) /= report_data

\* MeasurementMismatches with an isv_svn equal to the required one refused.
MeasurementMismatches_EqualIsvSvnFails(enclave_info, quote) ==
    \/ enclave_info.mr_signer /= quote.report_body.measurement.mr_signer
    \/ \E mr_enclave \in enclave_info.mr_enclave :
          mr_enclave /= quote.report_body.measurement.mr_enclave
    \/ ArrayGreater(enclave_info.cpu_svn, quote.report_body.cpu_svn)
    \/ enclave_info.isv_svn >= quote.report_body.isv_svn

\* verify_attestation_report_body: the four comparisons against a
\* configured EnclaveInfo, any of which is a MeasurementMismatch.
MeasurementMismatches(enclave_info, quote) ==
    \/ enclave_info.mr_signer /= quote.report_body.measurement.mr_signer
    \/ \E mr_enclave \in enclave_info.mr_enclave :
          mr_enclave /= quote.report_body.measurement.mr_enclave
    \/ ArrayGreater(enclave_info.cpu_svn, quote.report_body.cpu_svn)
    \/ enclave_info.isv_svn > quote.report_body.isv_svn

\* fn verify_attestation_report_body
verify_attestation_report_body(self, attestation_report_body, public_key, now, steps) ==
    LET body == from_slice_AttestationReportBody(attestation_report_body)
        s1 == Append(steps, Step("body decode"))
    IN
    IF ~body.ok THEN Reject(Error("JsonError", body.err), s1) ELSE
    LET attestation_report_time ==
            parse_DateTime(push_str(body.val.timestamp, "+00:00"))
        s2 == Append(s1, Step("timestamp parse"))
    IN
    IF ~attestation_report_time.ok
    THEN Reject(Error("DateTimeParsingError", attestation_report_time.err), s2) ELSE
    LET expiry == DateTimeAdd(attestation_report_time.val,
                              self.report_validity_duration)
        s3 == Append(s2, TimedStep("freshness", now))
    IN
    IF ~expiry.ok THEN Panic(expiry.err, s3) ELSE
    IF ReportTooOld(expiry.val, now)
    THEN Reject(Error("OldAttestationReport", ""), s3) ELSE
    LET status == parse_EnclaveQuoteStatus(body.val.isv_enclave_quote_status)
        s4 == Append(s3, Step("quote status"))
    IN
    IF ~status.ok
    THEN Reject(Error("EnclaveQuoteStatusParsingError", status.err), s4) ELSE
    IF StatusNotAccepted(self.valid_enclave_quote_statuses, status.val)
    THEN Reject(Error("InvalidEnclaveQuoteStatus",
                      body.val.isv_enclave_quote_status), s4) ELSE
    LET quote == get_quote(body.val)
        s5 == Append(s4, Step("quote decode"))
    IN
    IF ~quote.ok THEN Reject(Error("QuoteParsingError", quote.err), s5) ELSE
    LET reads == PublicKeyReads(public_key)
        s6 == Append(s5, Step("key binding")) \o ReadSteps(reads)
    IN
    IF \E i \in 1..Len(reads) : ~reads[i].value.ok
    THEN Panic(reads[CHOOSE i \in 1..Len(reads) : ~reads[i].value.ok].value.err, s6)
    ELSE
    IF PublicKeyMismatches(public_key, quote.val.report_body.report_data)
    THEN Reject(Error("PublicKeyMismatch", ""), s6) ELSE
    IF self.enclave_info = None THEN Accept(quote.val, s6) ELSE
    LET s7 == Append(s6, Step("enclave identity")) IN
    IF \E enclave_info \in self.enclave_info :
          MeasurementMismatches(enclave_info, quote.val)
    THEN Reject(Error("MeasurementMismatch", ""), s7)
    ELSE Accept(quote.val, s7)

\* get_end_entity_certificate that hands the first block to the parser
\* without the emptiness test, so that an empty chain is reported as a
\* certificate that does not parse.
get_end_entity_certificate_EmptyIsParsingError(certificate_chain) ==
    IF Len(certificate_chain) > 0 /\ EndEntityCert_from(Head(certificate_chain)).ok
    THEN EndEntityCert_from(Head(certificate_chain))
    ELSE Err(Error("AttestationReportSigningCertificateParsingError", ""))

\* fn get_end_entity_certificate
get_end_entity_certificate(certificate_chain) ==
    IF Len(certificate_chain) = 0
    THEN Err(Error("MissingAttestationReportSigningCertificate", ""))
    ELSE LET signing_cert == EndEntityCert_from(Head(certificate_chain)) IN
         IF signing_cert.ok
         THEN signing_cert
         ELSE Err(Error("AttestationReportSigningCertificateParsingError", ""))

\* fn get_trust_anchor
get_trust_anchor(self) == self.root_cert_store

\* fn verify_end_entity_certificate
verify_end_entity_certificate(self, end_entity_certificate, intermediate_certs, now) ==
    LET trust_anchors == get_trust_anchor(self)
        time == as_u64(timestamp(now))
        intermediates ==
            {intermediate_certs[i] : i \in 1..Len(intermediate_certs)}
    IN verify_is_valid_tls_server_cert(
           end_entity_certificate, trust_anchors, intermediates, time)

\* SignedBytes with the body re-serialized (parsed and written back in the
\* serializer's compact layout) before the signature is verified.
SignedBytes_Reserialized(attestation_report) ==
    [attestation_report.body EXCEPT !.layout = "compact"]

\* The message handed to verify_signature:
\* &attestation_report.body, as decoded from the envelope.
SignedBytes(attestation_report) == attestation_report.body

\* fn verify_attestation_report
verify_attestation_report(self, attestation_report_bytes, public_key, now, steps) ==
    LET attestation_report == from_slice_AttestationReport(attestation_report_bytes)
        s1 == Append(steps, Step("envelope decode"))
    IN
    IF ~attestation_report.ok
    THEN Reject(Error("AttestationReportParsingError", attestation_report.err), s1) ELSE
    LET signing_certificate_chain == certs(attestation_report.val.signing_cert)
        s2 == Append(s1, Step("chain pem"))
    IN
    IF ~signing_certificate_chain.ok
    THEN Reject(Error("AttestationReportSigningCertificateChainParsingError", ""), s2) ELSE
    LET signing_cert == get_end_entity_certificate(signing_certificate_chain.val)
        s3 == Append(s2, Step("end entity"))
    IN
    IF ~signing_cert.ok THEN Reject(signing_cert.err, s3) ELSE
    LET intermediate_certs ==
            Read("signing_certificate_chain[1..]",
                 slice_from(signing_certificate_chain.val, 1))
        s3r == s3 \o ReadSteps(<<intermediate_certs>>)
    IN
    IF ~intermediate_certs.value.ok
    THEN Panic(intermediate_certs.value.err, s3r) ELSE
    LET chain == verify_end_entity_certificate(
                     self, signing_cert.val, intermediate_certs.value.val, now)
        s4 == Append(s3r, TimedStep("chain validation", now))
    IN
    IF ~chain.ok
    THEN Reject(Error("AttestationReportSigningCertificateVerificationError",
                      chain.err), s4) ELSE
    LET sig == verify_signature(signing_cert.val,
                                RSA_PKCS1_2048_8192_SHA256,
                                SignedBytes(attestation_report.val),
                                attestation_report.val.signature)
        s5 == Append(s4, Step("report signature"))
    IN
    IF ~sig.ok THEN Reject(Error("WebpkiError", sig.err), s5) ELSE
    verify_attestation_report_body(
        self, attestation_report.val.body, public_key, now, s5)

\* pub fn verify_cert
verify_cert(self, certificate_der, now) ==
    LET certificate == parse_x509_der(certificate_der)
        s1 == <<Step("certificate parse")>>
    IN
    IF ~certificate.ok THEN Reject(Error("CertificateParsingError", ""), s1) ELSE
    LET not_before == certificate.val.not_before
        not_after == certificate.val.not_after
        now_sec == timestamp(now)
        s2 == Append(s1, TimedStep("validity window", now))
    IN
    IF CertificateNotBegun(now_sec, not_before)
    THEN Reject(Error("CertificateNotBegin", ""), s2) ELSE
    IF CertificateHasExpired(now_sec, not_after)
    THEN Reject(Error("CertificateExpired", ""), s2) ELSE
    LET public_key == certificate.val.subject_public_key
        s3 == Append(s2, Step("extension lookup"))
    IN
    IF OID_EXTENSION_ATTESTATION_REPORT \notin DOMAIN certificate.val.extensions
    THEN Reject(Error("MissingAttestationReport", ""), s3) ELSE
    LET quote == verify_attestation_report(
                     self,
                     certificate.val.extensions[OID_EXTENSION_ATTESTATION_REPORT],
                     public_key, now, s3)
    IN
    IF ~quote.ok THEN quote ELSE
    Accept([public_key |-> public_key, quote |-> quote.val], quote.steps)

\* pub fn new
new(config) ==
    LET root_cert_store == add_pem_file(config.signing_ca_cert_pem)
        statuses == config.valid_enclave_quote_statuses
        unparsable ==
            {i \in 1..Len(statuses) : ~parse_EnclaveQuoteStatus(statuses[i]).ok}
    IN
    IF ~root_cert_store.ok THEN Err(Error("CertificateParsingError", "")) ELSE
    IF unparsable /= {}
    THEN Err(Error("EnclaveQuoteStatusParsingError",
                   statuses[CHOOSE i \in unparsable :
                                \A j \in unparsable : i <= j]))
    ELSE Ok([root_cert_store |-> root_cert_store.val,
             valid_enclave_quote_statuses |->
                 {statuses[i] : i \in 1..Len(statuses)},
             report_validity_duration |->
                 DurationSeconds(config.report_validity_secs),
             enclave_info |-> config.enclave_info])

\* #[error("...")] of EnclaveCertVerifierError: Display / to_string()
to_string(e) ==
    CASE e.kind = "AttestationReportParsingError" ->
             "Unable to parse attestation report: " \o e.detail
      [] e.kind = "AttestationReportSigningCertificateChainParsingError" ->
             "Unable to parse attestation signing certificate chain"
      [] e.kind = "AttestationReportSigningCertificateParsingError" ->
             "Unable to parse attestation signing certificate"
      [] e.kind = "AttestationReportSigningCertificateVerificationError" ->
             "Signing certificate verification error: " \o e.detail
      [] e.kind = "CertificateExpired" -> "Enclave certificate expired"
      [] e.kind = "CertificateNotBegin" -> "Enclave certificate not begin yet"
      [] e.kind = "CertificateParsingError" -> "Failed to parse server certificate"
      [] e.kind = "DateTimeParsingError" ->
             "Unable to parse date time: " \o e.detail
      [] e.kind = "EnclaveQuoteStatusParsingError" ->
             "Unable to parse enclave quote status: " \o e.detail
      [] e.kind = "InvalidEnclaveQuoteStatus" ->
             "Invalid enclave quote status: " \o e.detail
      [] e.kind = "IoError" -> "IO error: " \o e.detail
      [] e.kind = "JsonError" -> "JSON error: " \o e.detail
      [] e.kind = "MeasurementMismatch" ->
             "Enclave details does not match with the ones provided in configuration"
      [] e.kind = "MissingAttestationReport" ->
             "Attestation report not available in server certificate"
      [] e.kind = "MissingAttestationReportSigningCertificate" ->
             "Attestation report signing certificate not available"
      [] e.kind = "OldAttestationReport" ->
             "Attestation report is older than report validify duration"
      [] e.kind = "PublicKeyMismatch" ->
             "Public key in certificate does not match with the one in enclave quote"
      [] e.kind = "QuoteParsingError" ->
             "Unable to parse quote from attestation report body: " \o e.detail
      [] e.kind = "TimeError" -> "Unable to get current time"
      [] e.kind = "WebpkiError" -> "Webpki error: " \o e.detail

\* impl From<EnclaveCertVerifierError> for TLSError
TLSError_from(e) == [kind |-> "General", msg |-> to_string(e)]

NoCertificatesPresented == [kind |-> "NoCertificatesPresented", msg |-> ""]
NoTLSError == [kind |-> "", msg |-> ""]

\* The outcome of a TLS adapter call: the TLS result, how many times
\* verify_cert was called, the checks those calls performed, and the
\* wall-clock readings (Utc::now()) the call took.
TlsOutcome(ok, err, verified, steps, readings) ==
    [ok |-> ok, err |-> err, verified |-> verified, steps |-> steps,
     readings |-> readings]

\* chrono Utc::now(): the reading of the system clock, which is taken as
\* a duration since the Unix epoch; a clock set before the epoch makes the
\* call panic.
Utc_now(reading) ==
    IF reading < 0 THEN Err("system time before Unix epoch") ELSE Ok(reading)

\* for cert in presented_certs { self.verify_cert(&cert.0, Utc::now())?; }
\* from the i-th certificate on.  clock[i] is what the system clock shows
\* when the loop reaches the i-th presented certificate.  A panic of
\* Utc::now() or of verify_cert unwinds through the adapter.
RECURSIVE VerifyEachPresented(_, _, _, _, _)
VerifyEachPresented(self, presented_certs, clock, i, steps) ==
    IF i > Len(presented_certs)
    THEN TlsOutcome(TRUE, NoTLSError, i - 1, steps, SubSeq(clock, 1, i - 1))
    ELSE LET now == Utc_now(clock[i]) IN
         IF ~now.ok
         THEN TlsOutcome(FALSE, [kind |-> "panic", msg |-> now.err], i - 1,
                         steps, SubSeq(clock, 1, i - 1))
         ELSE
         LET r == verify_cert(self, presented_certs[i], now.val) IN
         IF r.err.kind = "panic"
         THEN TlsOutcome(FALSE, [kind |-> "panic", msg |-> r.err.detail], i,
                         steps \o r.steps, SubSeq(clock, 1, i))
         ELSE
         IF ~r.ok
         THEN TlsOutcome(FALSE, TLSError_from(r.err), i, steps \o r.steps,
                         SubSeq(clock, 1, i))
         ELSE VerifyEachPresented(self, presented_certs, clock, i + 1,
                                  steps \o r.steps)

\* fn verify_server_cert
verify_server_cert(self, presented_certs, clock) ==
    IF Len(presented_certs) = 0
    THEN TlsOutcome(FALSE, NoCertificatesPresented, 0, <<>>, <<>>)
    ELSE VerifyEachPresented(self, presented_certs, clock, 1, <<>>)

\* fn verify_client_cert
verify_client_cert(self, presented_certs, clock) ==
    IF Len(presented_certs) = 0
    THEN TlsOutcome(FALSE, NoCertificatesPresented, 0, <<>>, <<>>)
    ELSE VerifyEachPresented(self, presented_certs, clock, 1, <<>>)

(***************************************************************************)
(* The inputs the model draws from.                                        *)
(***************************************************************************)
Fill(n, b) == [i \in 1..n |-> b]

\* Two report_data values that differ in their last byte only.
ReportData0 == Fill(ReportDataLen, 7)
ReportData1 == [ReportData0 EXCEPT ![ReportDataLen] = 8]

\* The SEC1 uncompressed key committed to by ReportData0.
GoodKey == <<Sec1Uncompressed>> \o ReportData0

Mr(b) == Fill(MrLen, b)
CpuSvn(first, rest) == [i \in 1..CpuSvnLen |-> IF i = 1 THEN first ELSE rest]

FarFuture == MaxTime + 1

\* An end-entity certificate with an RSA key of 2048 bits, signed with
\* RSA PKCS#1 SHA-256, without extended key usage.
SigningCert(subject, issuer, key, signed_by, not_after) ==
    [x509 |-> TRUE, subject |-> subject, issuer |-> issuer, key |-> key,
     key_alg |-> "rsa", key_bits |-> 2048,
     signed_by |-> signed_by, signature_alg |-> "RSA_PKCS1_2048_8192_SHA256",
     ca |-> FALSE, path_len |-> None, name_constraints |-> None, eku |-> None,
     not_before |-> 0, not_after |-> not_after]

\* The certificate with basicConstraints CA:TRUE.
CaCert(c) == [c EXCEPT !.ca = TRUE]

RootCA == CaCert(SigningCert("root", "root", "root key", "root key", FarFuture))
Intermediate ==
    CaCert(SigningCert("intermediate", "root", "intermediate key", "root key", FarFuture))
Leaf == SigningCert("report signing", "root", "signing key", "root key", FarFuture)
LeafExpired == SigningCert("report signing", "root", "signing key", "root key", 0)
LeafViaIntermediate ==
    SigningCert("report signing", "intermediate", "signing key", "intermediate key", FarFuture)
SelfSigned == SigningCert("mallory", "mallory", "mallory key", "mallory key", FarFuture)
\* Leaf, valid from the second second on only.
LeafNotYetValid == [Leaf EXCEPT !.not_before = 2]
\* Leaf with an extended key usage of clientAuth only.
LeafClientAuth == [Leaf EXCEPT !.eku = Some({"clientAuth"})]
\* Leaf with an EC P-256 key, an RSA key of 1024 bits.
LeafEc == [Leaf EXCEPT !.key_alg = "ecdsa-p256", !.key_bits = 256]
LeafRsa1024 == [Leaf EXCEPT !.key_bits = 1024]
\* Leaf signed by the root with an algorithm outside SUPPORTED_SIG_ALGS.
LeafSha384 == [Leaf EXCEPT !.signature_alg = "RSA_PKCS1_2048_8192_SHA384"]
\* Leaf, valid from the second before the epoch on.
LeafFrom1969 == [Leaf EXCEPT !.not_before = 0 - 1]
\* A line of CA certificates under the root, each issued by the one before.
CaNames == <<"ca 1", "ca 2", "ca 3", "ca 4", "ca 5", "ca 6", "ca 7">>
SubCa(k) ==
    CaCert(SigningCert(CaNames[k], IF k = 1 THEN "root" ELSE CaNames[k - 1],
                       CaNames[k], IF k = 1 THEN "root key" ELSE CaNames[k - 1],
                       FarFuture))
\* A certificate issued to its own name under the key of a CA of that
\* name, with the key of that CA and with a key of its own.
SelfIssuedSameKey ==
    SigningCert("report signing", "report signing", "signing key", "signing key",
                FarFuture)
SelfIssuedOtherKey ==
    SigningCert("report signing", "report signing", "sub key", "signing key",
                FarFuture)
\* A certificate issued by Leaf, which is no CA.
IssuedByLeaf ==
    SigningCert("issued by the leaf", "report signing", "sub key", "signing key", FarFuture)
NotX509 == [SigningCert("", "", "", "", 0) EXCEPT !.x509 = FALSE]

Pem(blocks) == [base64 |-> TRUE, blocks |-> blocks]
BadPem == [base64 |-> FALSE, blocks |-> <<>>]

\* The PEM of a signing certificate issued by the depth-th CA of the line,
\* followed by the CAs from that one up.
PemUnderCa(depth) ==
    Pem(<<SigningCert("report signing", CaNames[depth], "signing key",
                      CaNames[depth], FarFuture)>>
        \o [i \in 1..depth |-> SubCa(depth + 1 - i)])
\* The same with the first CA of the line allowing len CAs below it.
PemUnderCaPathLen(depth, len) ==
    [PemUnderCa(depth) EXCEPT !.blocks[depth + 1].path_len = Some(len)]

\* Attributes of a well-formed attested certificate that verifies under
\* BaseConfig at the instants of its validity window.
BaseAttrs ==
    [der |-> TRUE,
     window |-> <<1, 2>>,
     key |-> GoodKey,
     ext |-> OID_EXTENSION_ATTESTATION_REPORT,
     env_json |-> TRUE,
     signing_cert |-> Pem(<<Leaf>>),
     sig_key |-> "signing key",
     sig_alg |-> "RSA_PKCS1_2048_8192_SHA256",
     tamper |-> "none",
     body_json |-> TRUE,
     layout |-> "compact",
     ts_date |-> "iso",
     ts_zone |-> "",
     ts_instant |-> 3,
     status |-> "OK",
     quote_decodes |-> TRUE,
     report_data |-> ReportData0,
     mr_signer |-> Mr(1),
     mr_enclave |-> Mr(2),
     cpu_svn |-> CpuSvn(1, 1),
     isv_svn |-> 1]

\* Single alterations of those attributes.
AttrAlts ==
    {<<"der", FALSE>>,
     <<"window", <<0, 3>> >>, <<"window", <<2, 2>> >>, <<"window", <<2, 1>> >>,
     <<"key", <<2>> \o ReportData0>>, <<"key", <<Sec1Uncompressed>> \o ReportData1>>,
     <<"key", SubSeq(GoodKey, 1, PublicKeyLen - 1)>>, <<"key", GoodKey \o <<0>> >>,
     <<"key", <<>> >>,
     <<"ext", "other-oid">>,
     <<"env_json", FALSE>>,
     <<"signing_cert", BadPem>>, <<"signing_cert", Pem(<<>>)>>,
     <<"signing_cert", Pem(<<NotX509, NotX509>>)>>,
     <<"signing_cert", Pem(<<SelfSigned>>)>>,
     <<"signing_cert", Pem(<<SelfIssuedSameKey, CaCert(Leaf)>>)>>,
     <<"signing_cert", Pem(<<SelfIssuedOtherKey, CaCert(Leaf)>>)>>,
     <<"signing_cert", Pem(<<LeafViaIntermediate, Intermediate>>)>>,
     <<"signing_cert", Pem(<<LeafViaIntermediate>>)>>,
     <<"signing_cert", Pem(<<LeafExpired>>)>>,
     <<"signing_cert", Pem(<<LeafNotYetValid>>)>>,
     <<"signing_cert", Pem(<<LeafClientAuth>>)>>,
     <<"signing_cert", Pem(<<LeafEc>>)>>,
     <<"signing_cert", Pem(<<LeafRsa1024>>)>>,
     <<"signing_cert", Pem(<<LeafSha384>>)>>,
     <<"signing_cert", Pem(<<Intermediate>>)>>,
     <<"signing_cert", Pem(<<IssuedByLeaf, Leaf>>)>>,
     <<"signing_cert", Pem(<<LeafFrom1969>>)>>,
     <<"signing_cert", PemUnderCa(MAX_SUB_CA_COUNT)>>,
     <<"signing_cert", PemUnderCa(MAX_SUB_CA_COUNT + 1)>>,
     <<"signing_cert", PemUnderCaPathLen(2, 0)>>,
     <<"signing_cert", PemUnderCaPathLen(2, 1)>>,
     <<"signing_cert", Pem(<<LeafViaIntermediate,
                             [Intermediate EXCEPT !.name_constraints =
                                                     Some({"other name"})]>>)>>,
     <<"signing_cert", Pem(<<LeafViaIntermediate,
                             [Intermediate EXCEPT !.key_bits = 1024]>>)>>,
     <<"sig_key", "mallory key">>, <<"sig_key", "intermediate key">>,
     <<"sig_key", "sub key">>,
     <<"sig_alg", "RSA_PKCS1_2048_8192_SHA384">>,
     <<"tamper", "layout">>, <<"tamper", "timestamp">>, <<"tamper", "status">>,
     <<"tamper", "report_data">>,
     <<"body_json", FALSE>>,
     <<"layout", "spaced">>,
     <<"ts_date", "garbage">>, <<"ts_zone", "Z">>,
     <<"ts_instant", 0>>, <<"ts_instant", 1>>, <<"ts_instant", FarFuture + 2>>,
     <<"ts_instant", MAX_DATETIME>>,
     <<"status", "GROUP_OUT_OF_DATE">>, <<"status", "BOGUS">>,
     <<"quote_decodes", FALSE>>,
     <<"report_data", ReportData1>>,
     <<"mr_signer", Mr(9)>>, <<"mr_enclave", Mr(9)>>,
     <<"cpu_svn", CpuSvn(0, 255)>>, <<"cpu_svn", CpuSvn(1, 0)>>,
     <<"cpu_svn", CpuSvn(1, 2)>>, <<"cpu_svn", CpuSvn(2, 0)>>,
     <<"isv_svn", 0>>, <<"isv_svn", 2>>}

\* A record with at most two of its fields altered.
Vary(base, alts) ==
    {base} \cup {[[base EXCEPT ![a[1]] = a[2]] EXCEPT ![b[1]] = b[2]] :
                    a \in alts, b \in alts}

\* The report body the attestation service signed.
SignedBody(a) ==
    [json |-> a.body_json,
     layout |-> a.layout,
     timestamp |-> [date |-> a.ts_date, instant |-> a.ts_instant, zone |-> a.ts_zone],
     isv_enclave_quote_status |-> a.status,
     isv_enclave_quote_body |->
         [decodes |-> a.quote_decodes, report_data |-> a.report_data,
          mr_signer |-> a.mr_signer, mr_enclave |-> a.mr_enclave,
          cpu_svn |-> a.cpu_svn, isv_svn |-> a.isv_svn]]

\* The body as delivered: the signed body, possibly altered after signing.
DeliveredBody(a) ==
    LET b == SignedBody(a) IN
    CASE a.tamper = "none" -> b
      [] a.tamper = "layout" ->
             [b EXCEPT !.layout = IF @ = "compact" THEN "spaced" ELSE "compact"]
      [] a.tamper = "timestamp" -> [b EXCEPT !.timestamp.instant = MaxTime]
      [] a.tamper = "status" ->
             [b EXCEPT !.isv_enclave_quote_status =
                           IF @ = "OK" THEN "GROUP_OUT_OF_DATE" ELSE "OK"]
      [] a.tamper = "report_data" ->
             [b EXCEPT !.isv_enclave_quote_body.report_data =
                           IF @ = ReportData0 THEN ReportData1 ELSE ReportData0]

\* The DER certificate with those attributes.
MkCert(a) ==
    [der |-> a.der,
     not_before |-> a.window[1],
     not_after |-> a.window[2],
     subject_public_key |-> a.key,
     extensions |->
         [oid \in {a.ext} |->
             [json |-> a.env_json,
              body |-> DeliveredBody(a),
              signature |-> [key |-> a.sig_key, msg |-> SignedBody(a),
                             alg |-> a.sig_alg],
              signing_cert |-> a.signing_cert]]]

Certs == {MkCert(a) : a \in Vary(BaseAttrs, AttrAlts)}

\* The certificates presented to the TLS adapters.
ChainCerts ==
    {MkCert(BaseAttrs),
     MkCert([BaseAttrs EXCEPT !.window = <<0, 1>>]),
     MkCert([BaseAttrs EXCEPT !.ts_instant = MAX_DATETIME])}

Chains == UNION {[1..n -> ChainCerts] : n \in 0..MaxChain}

\* What the system clock shows at successive readings; it may be set back
\* between two of them, and may be set before the epoch.
Clocks(n) == [1..n -> Instants]

EnclaveInfo(mr_enclave) ==
    [mr_signer |-> Mr(1), mr_enclave |-> mr_enclave,
     cpu_svn |-> CpuSvn(1, 1), isv_svn |-> 1]

BaseConfig ==
    [signing_ca_cert_pem |-> Pem(<<RootCA>>),
     valid_enclave_quote_statuses |-> <<"OK", "CONFIGURATION_AND_SW_HARDENING_NEEDED">>,
     report_validity_secs |-> TestReportValiditySecs,
     enclave_info |-> None]

ConfigAlts ==
    {<<"signing_ca_cert_pem", BadPem>>, <<"signing_ca_cert_pem", Pem(<<>>)>>,
     <<"signing_ca_cert_pem", Pem(<<NotX509>>)>>,
     <<"valid_enclave_quote_statuses", <<"OK", "GROUP_OUT_OF_DATE">> >>,
     <<"valid_enclave_quote_statuses", <<"OK", "BOGUS">> >>,
     <<"valid_enclave_quote_statuses", <<>> >>,
     <<"report_validity_secs", 0>>, <<"report_validity_secs", 1>>,
     <<"enclave_info", Some(EnclaveInfo(None))>>,
     <<"enclave_info", Some(EnclaveInfo(Some(Mr(2))))>>}

Configs == Vary(BaseConfig, ConfigAlts)

(***************************************************************************)
(* The state machine: a verifier is constructed once and then verifies.    *)
(* `call` holds the operation last performed, its inputs and what it       *)
(* returned, until the caller has taken the result.                        *)
(***************************************************************************)
Idle == [op |-> "none"]

\* The threads that share the verifier (it is handed to rustls behind an
\* Arc and called through &self).
Threads == {"t1", "t2"}

IdleThread == [pc |-> "idle"]

Init ==
    /\ verifier = [state |-> "Uninitialized"]
    /\ call = Idle
    /\ threads = [t \in Threads |-> IdleThread]

\* EnclaveCertVerifier::new(config)
New ==
    /\ verifier.state = "Uninitialized"
    /\ call = Idle
    /\ \E config \in Configs :
          LET r == new(config) IN
          /\ call' = [op |-> "new", config |-> config, ok |-> r.ok,
                      err |-> IF r.ok THEN NoError ELSE r.err]
          /\ verifier' = IF r.ok THEN [state |-> "Ready", self |-> r.val]
                         ELSE verifier
    /\ UNCHANGED threads

\* verifier.verify_cert(certificate, now)
VerifyCert ==
    /\ verifier.state = "Ready"
    /\ call = Idle
    /\ \E certificate \in Certs, now \in Instants :
          call' = [op |-> "verify_cert", certificate |-> certificate, now |-> now,
                   result |-> verify_cert(verifier.self, certificate, now)]
    /\ UNCHANGED <<verifier, threads>>

\* verifier.verify_server_cert(roots, presented_certs, dns_name, ocsp);
\* clock holds the readings of the wall clock during the call.
VerifyServerCert ==
    /\ verifier.state = "Ready"
    /\ call = Idle
    /\ \E presented_certs \in Chains :
          \E clock \in Clocks(Len(presented_certs)) :
             call' = [op |-> "verify_server_cert",
                      presented_certs |-> presented_certs,
                      result |-> verify_server_cert(verifier.self,
                                                    presented_certs, clock)]
    /\ UNCHANGED <<verifier, threads>>

\* verifier.verify_client_cert(presented_certs, sni)
VerifyClientCert ==
    /\ verifier.state = "Ready"
    /\ call = Idle
    /\ \E presented_certs \in Chains :
          \E clock \in Clocks(Len(presented_certs)) :
             call' = [op |-> "verify_client_cert",
                      presented_certs |-> presented_certs,
                      result |-> verify_client_cert(verifier.self,
                                                    presented_certs, clock)]
    /\ UNCHANGED <<verifier, threads>>

\* The caller takes the result.
Return ==
    /\ call /= Idle
    /\ call' = Idle
    /\ UNCHANGED <<verifier, threads>>

Next ==
    \/ New
    \/ VerifyCert
    \/ VerifyServerCert
    \/ VerifyClientCert
    \/ Return

Spec == Init /\ [][Next]_vars

(***************************************************************************)
(* Concurrent use: threads call the three entry points on one shared       *)
(* verifier.  A call reads the fields of the verifier where the code reads *)
(* them: root_cert_store when the signing chain is validated, the accepted *)
(* statuses, the validity duration and enclave_info when the report body   *)
(* is examined; other threads run in between.                              *)
(***************************************************************************)
\* The entry point op called with one certificate at one instant.
Invoke(self, op, certificate, now) ==
    CASE op = "verify_cert" -> verify_cert(self, certificate, now)
      [] op = "verify_server_cert" ->
             verify_server_cert(self, <<certificate>>, <<now>>)
      [] op = "verify_client_cert" ->
             verify_client_cert(self, <<certificate>>, <<now>>)

EntryPoints == {"verify_cert", "verify_server_cert", "verify_client_cert"}

\* A thread enters an entry point and gets as far as get_trust_anchor(),
\* which reads self.root_cert_store.  entered records the verifier as it
\* was when the call was made.
ThreadBegin ==
    /\ verifier.state = "Ready"
    /\ call = Idle
    /\ \E t \in Threads :
          /\ threads[t].pc = "idle"
          /\ \E op \in EntryPoints, certificate \in ChainCerts, now \in Instants :
                threads' = [threads EXCEPT ![t] =
                    [pc |-> "validating", op |-> op,
                     certificate |-> certificate, now |-> now,
                     entered |-> verifier.self,
                     root_cert_store |-> verifier.self.root_cert_store]]
    /\ UNCHANGED <<verifier, call>>

\* The thread's call with what it has read of the verifier: the root store
\* at get_trust_anchor(), the other fields now.
ThreadResult(t) ==
    Invoke([verifier.self EXCEPT !.root_cert_store = threads[t].root_cert_store],
           threads[t].op, threads[t].certificate, threads[t].now)

\* The thread's record once its call has returned result.
Finished(thread, result) ==
    [pc |-> "done", op |-> thread.op, certificate |-> thread.certificate,
     now |-> thread.now, entered |-> thread.entered,
     root_cert_store |-> thread.root_cert_store, result |-> result]

\* ThreadFinish of a verifier that pins the identity of the first enclave
\* it accepts (written through interior mutability) for the calls to come.
ThreadFinish_PinsIdentity ==
    /\ verifier.state = "Ready"
    /\ \E t \in Threads :
          /\ threads[t].pc = "validating"
          /\ LET r == ThreadResult(t) IN
             /\ threads' = [threads EXCEPT ![t] = Finished(threads[t], r)]
             /\ verifier' =
                    IF r.ok /\ threads[t].op = "verify_cert"
                            /\ verifier.self.enclave_info = None
                    THEN [verifier EXCEPT !.self.enclave_info =
                             Some([mr_signer |->
                                       r.val.quote.report_body.measurement.mr_signer,
                                   mr_enclave |->
                                       Some(r.val.quote.report_body.measurement.mr_enclave),
                                   cpu_svn |-> r.val.quote.report_body.cpu_svn,
                                   isv_svn |-> r.val.quote.report_body.isv_svn])]
                    ELSE verifier
    /\ UNCHANGED call

\* The thread runs the rest of its call, reading valid_enclave_quote_statuses,
\* report_validity_duration and enclave_info through &self, and has its
\* result.
ThreadFinish ==
    /\ verifier.state = "Ready"
    /\ \E t \in Threads :
          /\ threads[t].pc = "validating"
          /\ threads' = [threads EXCEPT ![t] =
                                 Finished(threads[t], ThreadResult(t))]
    /\ UNCHANGED <<verifier, call>>

\* The thread's caller takes the result.
ThreadReturn ==
    /\ \E t \in Threads :
          /\ threads[t].pc = "done"
          /\ threads' = [threads EXCEPT ![t] = IdleThread]
    /\ UNCHANGED <<verifier, call>>

NextConcurrent ==
    \/ New
    \/ Return
    \/ ThreadBegin
    \/ ThreadFinish
    \/ ThreadReturn

SpecConcurrent == Init /\ [][NextConcurrent]_vars

(***************************************************************************)
(* Vocabulary of the properties: the last call and what its input holds.   *)
(***************************************************************************)
IsVerifyCert == call.op = "verify_cert"
IsAdapterCall == call.op \in {"verify_server_cert", "verify_client_cert"}

\* The names of the checks a call performed, in order.
Performed(steps, check) == \E i \in 1..Len(steps) : steps[i].check = check

\* The peer certificate carries a decodable attestation report envelope.
HasEnvelope(c) ==
    /\ c.der
    /\ OID_EXTENSION_ATTESTATION_REPORT \in DOMAIN c.extensions
    /\ c.extensions[OID_EXTENSION_ATTESTATION_REPORT].json

Envelope(c) == c.extensions[OID_EXTENSION_ATTESTATION_REPORT]

\* (a) the instant lies in [not_before, not_after), both in whole seconds.
InValidityWindow(c, now) ==
    c.not_before * TicksPerSec <= now /\ now < c.not_after * TicksPerSec

\* (b) the report's signing chain anchors in the root store at the instant
\* and the signature is the end-entity key's signature over the body bytes.
ChainAnchors(self, env, now) ==
    /\ env.signing_cert.base64
    /\ Len(env.signing_cert.blocks) > 0
    /\ env.signing_cert.blocks[1].x509
    /\ BuildChain(env.signing_cert.blocks[1], FALSE, 0, {},
                  {env.signing_cert.blocks[i] : i \in 2..Len(env.signing_cert.blocks)},
                  self.root_cert_store, now \div TicksPerSec)

SignatureCoversBody(env) ==
    /\ Len(env.signing_cert.blocks) > 0
    /\ env.signature = [key |-> env.signing_cert.blocks[1].key, msg |-> env.body,
                        alg |-> "RSA_PKCS1_2048_8192_SHA256"]
    /\ env.signing_cert.blocks[1].key_alg = "rsa"
    /\ env.signing_cert.blocks[1].key_bits >= 2048
    /\ env.signing_cert.blocks[1].key_bits <= 8192

\* (c) the report is no older than the validity duration.
Fresh(self, body, now) ==
    /\ body.timestamp.date = "iso" /\ body.timestamp.zone = ""
    /\ body.timestamp.instant + self.report_validity_duration >= now

\* The sum timestamp + validity duration lies within the range of DateTime,
\* so that the freshness check has an answer.
FreshnessDecided(self, body) ==
    body.timestamp.instant + self.report_validity_duration <= MAX_DATETIME

\* (d) the status is one of the accepted ones.
StatusAccepted(self, body) ==
    body.isv_enclave_quote_status \in self.valid_enclave_quote_statuses

\* (e) the key is 0x04 followed by the report data.
KeyBound(public_key, q) == public_key = <<4>> \o q.report_data

\* a <= b in the lexicographic order of byte vectors of equal length.
LexLeq(a, b) ==
    \/ a = b
    \/ \E i \in 1..Len(a) : a[i] < b[i] /\ \A j \in 1..(i - 1) : a[j] = b[j]

\* (f) the identity constraints of a configured EnclaveInfo.
IdentityHolds(e, q) ==
    /\ e.mr_signer = q.mr_signer
    /\ \A m \in e.mr_enclave : m = q.mr_enclave
    /\ LexLeq(e.cpu_svn, q.cpu_svn)
    /\ e.isv_svn <= q.isv_svn

\* C1: whenever verify_cert returns Ok, (a) the instant is inside the peer
\* certificate's validity window, (b) the signing chain anchors in the root
\* store and the signature covers the body, (c) the report is fresh,
\* (d) its status is accepted, (e) the peer key is 0x04 followed by the
\* report data and (f) a configured enclave_info is satisfied.
C1_OkImpliesEveryCheck ==
    (IsVerifyCert /\ call.result.ok) =>
        LET c == call.certificate
            now == call.now
            self == verifier.self
        IN
        /\ HasEnvelope(c)
        /\ InValidityWindow(c, now)
        /\ ChainAnchors(self, Envelope(c), now)
        /\ SignatureCoversBody(Envelope(c))
        /\ Envelope(c).body.json
        /\ Fresh(self, Envelope(c).body, now)
        /\ StatusAccepted(self, Envelope(c).body)
        /\ Envelope(c).body.isv_enclave_quote_body.decodes
        /\ KeyBound(c.subject_public_key, Envelope(c).body.isv_enclave_quote_body)
        /\ \A e \in self.enclave_info :
              IdentityHolds(e, Envelope(c).body.isv_enclave_quote_body)

\* An accepted certificate under a verifier that constrains mr_enclave, with
\* a report older than "now" but inside the validity duration.
C1_Witness ==
    /\ IsVerifyCert
    /\ call.result.ok
    /\ \E e \in verifier.self.enclave_info : e.mr_enclave /= None
    /\ Envelope(call.certificate).body.timestamp.instant < call.now

\* Every check that the code makes before the key-binding check passes.
PassesUpToKeyBinding(self, c, now) ==
    /\ HasEnvelope(c)
    /\ InValidityWindow(c, now)
    /\ ChainAnchors(self, Envelope(c), now)
    /\ SignatureCoversBody(Envelope(c))
    /\ Envelope(c).body.json
    /\ Fresh(self, Envelope(c).body, now)
    /\ FreshnessDecided(self, Envelope(c).body)
    /\ StatusAccepted(self, Envelope(c).body)
    /\ Envelope(c).body.isv_enclave_quote_body.decodes

\* C2: the caller observes the error of the first failing check in the
\* order ... policy (freshness, quote status, enclave identity), key binding
\* last: a stale report with an unaccepted status is rejected with
\* OldAttestationReport, and a report that fails both an enclave-identity
\* constraint and the key binding is rejected with MeasurementMismatch.
C2_KeyBindingAfterIdentity ==
    IsVerifyCert =>
        LET c == call.certificate
            now == call.now
            self == verifier.self
            body == Envelope(c).body
        IN
        /\ ( /\ HasEnvelope(c) /\ InValidityWindow(c, now)
             /\ ChainAnchors(self, Envelope(c), now)
             /\ SignatureCoversBody(Envelope(c))
             /\ body.json
             /\ body.timestamp.date = "iso" /\ body.timestamp.zone = ""
             /\ ~Fresh(self, body, now)
             /\ ~StatusAccepted(self, body) )
           => call.result.err.kind = "OldAttestationReport"
        /\ ( /\ PassesUpToKeyBinding(self, c, now)
             /\ ~KeyBound(c.subject_public_key, body.isv_enclave_quote_body)
             /\ \E e \in self.enclave_info :
                   ~IdentityHolds(e, body.isv_enclave_quote_body) )
           => call.result.err.kind = "MeasurementMismatch"

\* C3: every CertVerifyResult holds a public key of exactly 65 bytes that
\* is 0x04 followed by the 64 bytes of the result's quote's report data, and
\* a peer key that is not of that form is rejected with PublicKeyMismatch
\* when the checks made before the key binding pass.
C3_ResultKeyIsBoundKey ==
    IsVerifyCert =>
        LET c == call.certificate
            r == call.result
        IN
        /\ r.ok =>
              /\ Len(r.val.public_key) = 65
              /\ r.val.public_key[1] = 4
              /\ SubSeq(r.val.public_key, 2, 65) =
                     SubSeq(r.val.quote.report_body.report_data, 1, 64)
              /\ Len(r.val.quote.report_body.report_data) = 64
        /\ ( /\ PassesUpToKeyBinding(verifier.self, c, call.now)
             /\ ~KeyBound(c.subject_public_key,
                          Envelope(c).body.isv_enclave_quote_body) )
           => (~r.ok /\ r.err.kind = "PublicKeyMismatch")

\* A peer key of the right length and tag that differs from the report data
\* is rejected with PublicKeyMismatch.
C3_Witness ==
    /\ IsVerifyCert
    /\ call.result.err.kind = "PublicKeyMismatch"
    /\ Len(call.certificate.subject_public_key) = 65
    /\ call.certificate.subject_public_key[1] = 4

PolicyOrBindingErrors ==
    {"OldAttestationReport", "InvalidEnclaveQuoteStatus", "MeasurementMismatch",
     "PublicKeyMismatch"}

\* C4: the signature is verified over exactly the body bytes of the
\* envelope and the body is parsed only after chain validation and
\* signature verification succeeded: a report whose chain does not anchor,
\* or whose signature is not the end-entity key's signature over the body
\* as delivered, is rejected before the body is decoded, with neither Ok nor
\* a policy or binding error; a signature over the delivered bytes passes.
C4_BodyParsedOnlyAfterSignature ==
    (IsVerifyCert /\ HasEnvelope(call.certificate)) =>
        LET env == Envelope(call.certificate)
            r == call.result
        IN
        /\ ( \/ ~ChainAnchors(verifier.self, env, call.now)
             \/ ~SignatureCoversBody(env) )
           => /\ ~r.ok
              /\ r.err.kind \notin PolicyOrBindingErrors
              /\ ~Performed(r.steps, "body decode")
        /\ Performed(r.steps, "report signature")
           => (Performed(r.steps, "body decode") <=> SignatureCoversBody(env))
        /\ Performed(r.steps, "body decode")
           => \E i, j, k \in 1..Len(r.steps) :
                 /\ i < j /\ j < k
                 /\ r.steps[i].check = "chain validation"
                 /\ r.steps[j].check = "report signature"
                 /\ r.steps[k].check = "body decode"

\* A report whose timestamp was rewritten after signing, under a valid
\* chain, is rejected at the signature check.
C4_Witness ==
    /\ IsVerifyCert
    /\ HasEnvelope(call.certificate)
    /\ ChainAnchors(verifier.self, Envelope(call.certificate), call.now)
    /\ Envelope(call.certificate).signature.msg.timestamp
           /= Envelope(call.certificate).body.timestamp
    /\ call.result.err.kind = "WebpkiError"

\* C5 as stated: for a parsable certificate verify_cert returns
\* CertificateNotBegin exactly when now < not_before and CertificateExpired
\* exactly when now >= not_after, and passes the validity check at every
\* instant of [not_before, not_after).
C5_ExpiredExactlyFromNotAfter ==
    (IsVerifyCert /\ call.certificate.der) =>
        LET c == call.certificate
            r == call.result
        IN
        /\ r.err.kind = "CertificateNotBegin"
               <=> call.now < c.not_before * TicksPerSec
        /\ r.err.kind = "CertificateExpired"
               <=> call.now >= c.not_after * TicksPerSec
        /\ InValidityWindow(c, call.now)
               => Performed(r.steps, "extension lookup")

\* C5 (amended): for a parsable certificate verify_cert returns
\* CertificateNotBegin exactly when now < not_before, CertificateExpired
\* exactly when now >= not_before and now >= not_after (not_after is
\* exclusive; the not-begin test is made first), and passes the validity
\* check at every instant of [not_before, not_after).
C5_ValidityWindow ==
    (IsVerifyCert /\ call.certificate.der) =>
        LET c == call.certificate
            r == call.result
        IN
        /\ r.err.kind = "CertificateNotBegin"
               <=> call.now < c.not_before * TicksPerSec
        /\ r.err.kind = "CertificateExpired"
               <=> /\ call.now >= c.not_before * TicksPerSec
                   /\ call.now >= c.not_after * TicksPerSec
        /\ InValidityWindow(c, call.now)
               <=> Performed(r.steps, "extension lookup")

\* A certificate with a non-empty window, verified at exactly not_after, is
\* expired.
C5_Witness ==
    /\ IsVerifyCert
    /\ call.certificate.der
    /\ call.certificate.not_before < call.certificate.not_after
    /\ call.now = call.certificate.not_after * TicksPerSec
    /\ call.result.err.kind = "CertificateExpired"

\* C6 as stated: a report that gets to the freshness check passes it
\* exactly when body.timestamp + report_validity_secs >= now (equality
\* passes) and fails with OldAttestationReport otherwise; a timestamp in
\* the future of now, however far, is never rejected for freshness.
C6_FreshnessOneSided ==
    (IsVerifyCert /\ Performed(call.result.steps, "freshness")) =>
        LET r == call.result
            ts == Envelope(call.certificate).body.timestamp.instant
            validity == verifier.self.report_validity_duration
        IN
        /\ r.err.kind = "OldAttestationReport" <=> ts + validity < call.now
        /\ ts + validity >= call.now <=> Performed(r.steps, "quote status")
        /\ ts > call.now => r.err.kind /= "OldAttestationReport"

\* C7: the enclave identity check is made only when enclave_info is
\* configured; it accepts exactly when mr_signer is equal, mr_enclave is
\* equal if configured, the required cpu_svn is lexicographically <= the
\* quote's and the required isv_svn is <= the quote's; every rejection is
\* MeasurementMismatch, and without enclave_info nothing is rejected with
\* MeasurementMismatch.
C7_EnclaveIdentity ==
    IsVerifyCert =>
        LET c == call.certificate
            r == call.result
            self == verifier.self
        IN
        /\ self.enclave_info = None
               => /\ r.err.kind /= "MeasurementMismatch"
                  /\ ~Performed(r.steps, "enclave identity")
        /\ r.err.kind = "MeasurementMismatch"
               => Performed(r.steps, "enclave identity")
        /\ ( /\ self.enclave_info /= None
             /\ PassesUpToKeyBinding(self, c, call.now)
             /\ KeyBound(c.subject_public_key,
                         Envelope(c).body.isv_enclave_quote_body) )
               => Performed(r.steps, "enclave identity")
        /\ Performed(r.steps, "enclave identity")
               => \A e \in self.enclave_info :
                     /\ r.ok <=> IdentityHolds(
                                     e, Envelope(c).body.isv_enclave_quote_body)
                     /\ ~r.ok => r.err.kind = "MeasurementMismatch"

\* A quote whose cpu_svn is lexicographically below the required one, though
\* its last byte is above, is rejected while every other field matches.
C7_Witness ==
    /\ IsVerifyCert
    /\ call.result.err.kind = "MeasurementMismatch"
    /\ \E e \in verifier.self.enclave_info :
          LET q == Envelope(call.certificate).body.isv_enclave_quote_body IN
          /\ e.mr_signer = q.mr_signer
          /\ e.isv_svn = q.isv_svn
          /\ q.cpu_svn[CpuSvnLen] > e.cpu_svn[CpuSvnLen]

\* C8 as stated: an adapter rejects an empty chain with NoCertificatesPresented
\* without calling verify_cert; otherwise it verifies the presented
\* certificates in order, succeeds only if all of them verify, and the
\* first failing one aborts the call with TLSError::General carrying the
\* to_string() of its error.
C8_AdapterVerifiesEveryCertificate ==
    IsAdapterCall =>
        LET certs_ == call.presented_certs
            r == call.result
            self == verifier.self
        IN
        IF Len(certs_) = 0
        THEN /\ ~r.ok
             /\ r.err.kind = "NoCertificatesPresented"
             /\ r.verified = 0
             /\ r.steps = <<>>
        ELSE /\ r.verified \in 1..Len(certs_)
             /\ Len(r.readings) = r.verified
             /\ \A i \in 1..(r.verified - 1) :
                   verify_cert(self, certs_[i], r.readings[i]).ok
             /\ LET last == verify_cert(self, certs_[r.verified],
                                        r.readings[r.verified])
                IN IF r.ok
                   THEN r.verified = Len(certs_) /\ last.ok
                   ELSE /\ ~last.ok
                        /\ r.err.kind = "General"
                        /\ r.err.msg = to_string(last.err)

\* The instants at which the time-dependent checks of a call were made.
InstantsUsed(steps) == {steps[i].at : i \in {j \in 1..Len(steps) : steps[j].at /= NoTime}}

\* C9: every time-dependent check of one verification is evaluated against
\* one and the same instant, and a TLS adapter call samples the wall clock
\* once and uses that one instant for the whole presented chain.
C9_OneInstantPerCall ==
    /\ IsVerifyCert => InstantsUsed(call.result.steps) \subseteq {call.now}
    /\ IsAdapterCall => Cardinality(InstantsUsed(call.result.steps)) <= 1

\* C10: new succeeds only if signing_ca_cert_pem parses to at least one
\* trust anchor and every configured status literal is recognized; otherwise
\* construction fails and no verifier is produced.
C10_ReadyOnlyWithTrustAnchor ==
    /\ call.op = "new" =>
          ( call.ok <=>
              /\ call.config.signing_ca_cert_pem.base64
              /\ \E i \in 1..Len(call.config.signing_ca_cert_pem.blocks) :
                    call.config.signing_ca_cert_pem.blocks[i].x509
              /\ \A i \in 1..Len(call.config.valid_enclave_quote_statuses) :
                    call.config.valid_enclave_quote_statuses[i] \in RecognizedStatuses )
    /\ verifier.state = "Ready" => verifier.self.root_cert_store /= {}

\* The certificate parses, the instant lies in its validity window and it
\* carries the attestation report extension: verify_attestation_report runs.
ReachesReport(c, now) ==
    /\ c.der
    /\ InValidityWindow(c, now)
    /\ OID_EXTENSION_ATTESTATION_REPORT \in DOMAIN c.extensions

ChainDecodingErrors ==
    {"AttestationReportParsingError",
     "AttestationReportSigningCertificateChainParsingError",
     "MissingAttestationReportSigningCertificate",
     "AttestationReportSigningCertificateParsingError",
     "AttestationReportSigningCertificateVerificationError"}

\* The first fault of the report's signing chain, in the order envelope,
\* PEM, empty chain, first block, anchoring; "none" when there is none.
FirstChainFault(self, env, now) ==
    IF ~env.json THEN "AttestationReportParsingError"
    ELSE IF ~env.signing_cert.base64
    THEN "AttestationReportSigningCertificateChainParsingError"
    ELSE IF Len(env.signing_cert.blocks) = 0
    THEN "MissingAttestationReportSigningCertificate"
    ELSE IF ~env.signing_cert.blocks[1].x509
    THEN "AttestationReportSigningCertificateParsingError"
    ELSE IF ~ChainAnchors(self, env, now)
    THEN "AttestationReportSigningCertificateVerificationError"
    ELSE "none"

\* C11: decoding the report's signing chain yields
\* AttestationReportParsingError for an envelope that is not the JSON of the
\* three fields, ...ChainParsingError for a signing_cert that is not
\* parsable PEM, Missing... for a PEM that parses to an empty chain,
\* ...CertificateParsingError for a first block that is not X.509 and
\* ...VerificationError for a chain that does not anchor in the root store;
\* the first of these faults in that order decides the error, whatever else
\* is wrong with the report, and neither the report signature nor the body
\* has been examined then; a chain without fault yields none of the five.
C11_ChainDecodingErrorsInOrder ==
    (IsVerifyCert /\ ReachesReport(call.certificate, call.now)) =>
        LET r == call.result
            fault == FirstChainFault(
                         verifier.self,
                         call.certificate.extensions[OID_EXTENSION_ATTESTATION_REPORT],
                         call.now)
        IN
        /\ fault /= "none"
           => /\ ~r.ok
              /\ r.err.kind = fault
              /\ ~Performed(r.steps, "report signature")
              /\ ~Performed(r.steps, "body decode")
        /\ fault = "none"
           => /\ r.err.kind \notin ChainDecodingErrors
              /\ Performed(r.steps, "report signature")

\* A report whose signing_cert is a PEM without any certificate, and whose
\* signature is not the one made over the body at that, is rejected as
\* missing its signing certificate.
C11_Witness ==
    /\ IsVerifyCert
    /\ ReachesReport(call.certificate, call.now)
    /\ Envelope(call.certificate).json
    /\ Envelope(call.certificate).signing_cert.base64
    /\ Len(Envelope(call.certificate).signing_cert.blocks) = 0
    /\ Envelope(call.certificate).signature.msg /= Envelope(call.certificate).body
    /\ call.result.err.kind = "MissingAttestationReportSigningCertificate"

\* The certificate passes every check of the specification under the
\* verifier at the instant: (a) to (e), and (f) when an enclave_info is
\* configured.
Accepts(self, c, now) ==
    /\ PassesUpToKeyBinding(self, c, now)
    /\ KeyBound(c.subject_public_key, Envelope(c).body.isv_enclave_quote_body)
    /\ \A e \in self.enclave_info :
          IdentityHolds(e, Envelope(c).body.isv_enclave_quote_body)

\* Two results of one entry point are equal: the same verdict, the same
\* error, the same checks performed and, when Ok, the same value.
SameResult(op, r1, r2) ==
    /\ r1.ok = r2.ok
    /\ r1.err = r2.err
    /\ r1.steps = r2.steps
    /\ (op = "verify_cert" /\ r1.ok) => r1.val = r2.val
    /\ op /= "verify_cert" => r1.verified = r2.verified

\* C12: a constructed verifier is immutable.  While any thread is inside
\* verify_cert, verify_server_cert or verify_client_cert the shared verifier
\* (root store, accepted statuses, validity duration, enclave_info) is what
\* it was when that thread entered, whatever the other threads did in
\* between; a finished call succeeded exactly when its certificate passes
\* the checks (a) to (f) under the verifier as entered at the call's own
\* instant, whenever the other threads ran; and two finished calls of the
\* same entry point on the same certificate at the same instant have equal
\* results.
C12_SharedVerifierIsImmutable ==
    /\ \A t \in Threads :
          threads[t].pc /= "idle" =>
             /\ verifier.state = "Ready"
             /\ verifier.self = threads[t].entered
             /\ threads[t].pc = "done" =>
                    ( threads[t].result.ok <=>
                          Accepts(threads[t].entered, threads[t].certificate,
                                  threads[t].now) )
    /\ \A t1, t2 \in Threads :
          ( /\ threads[t1].pc = "done" /\ threads[t2].pc = "done"
            /\ threads[t1].op = threads[t2].op
            /\ threads[t1].certificate = threads[t2].certificate
            /\ threads[t1].now = threads[t2].now )
          => SameResult(threads[t1].op, threads[t1].result, threads[t2].result)

\* One thread has had a certificate accepted while another one, which is
\* verifying the same certificate at the same instant, is still inside its
\* call.
C12_Witness ==
    /\ threads["t1"].pc = "done"
    /\ threads["t1"].op = "verify_cert"
    /\ threads["t1"].result.ok
    /\ threads["t2"].pc = "validating"
    /\ threads["t2"].op = "verify_cert"
    /\ threads["t2"].certificate = threads["t1"].certificate
    /\ threads["t2"].now = threads["t1"].now

\* enum EnclaveCertVerifierError: its variants.
EnclaveCertVerifierError ==
    {"CertificateParsingError", "CertificateExpired", "CertificateNotBegin",
     "MissingAttestationReport", "AttestationReportParsingError",
     "AttestationReportSigningCertificateChainParsingError",
     "MissingAttestationReportSigningCertificate",
     "AttestationReportSigningCertificateParsingError",
     "AttestationReportSigningCertificateVerificationError",
     "WebpkiError", "JsonError", "IoError", "TimeError", "DateTimeParsingError",
     "OldAttestationReport", "EnclaveQuoteStatusParsingError",
     "InvalidEnclaveQuoteStatus", "QuoteParsingError", "PublicKeyMismatch",
     "MeasurementMismatch"}

\* C13 as stated: verify_cert never panics on an index or slice out of
\* range and always ends in Ok or in a variant of EnclaveCertVerifierError.  The slice
\* signing_certificate_chain[1..] is taken only of a chain with at least
\* one block, an empty chain having been answered with
\* MissingAttestationReportSigningCertificate before; public_key[0] and
\* public_key[1..] are read only of a key of 65 bytes, a key of any other
\* length that gets as far as the key test being answered with
\* PublicKeyMismatch without either read.
C13_NoOutOfRangeAccess ==
    IsVerifyCert =>
        LET c == call.certificate
            r == call.result
        IN
        /\ r.err.kind /= "panic"
        /\ r.ok \/ r.err.kind \in EnclaveCertVerifierError
        /\ Performed(r.steps, "signing_certificate_chain[1..]")
           => /\ HasEnvelope(c)
              /\ Len(Envelope(c).signing_cert.blocks) >= 1
        /\ ( /\ ReachesReport(c, call.now)
             /\ Envelope(c).json
             /\ Envelope(c).signing_cert.base64
             /\ Len(Envelope(c).signing_cert.blocks) = 0 )
           => /\ r.err.kind = "MissingAttestationReportSigningCertificate"
              /\ ~Performed(r.steps, "signing_certificate_chain[1..]")
        /\ ( \/ Performed(r.steps, "public_key[0]")
             \/ Performed(r.steps, "public_key[1..]") )
           => Len(c.subject_public_key) = 65
        /\ (Performed(r.steps, "key binding") /\ Len(c.subject_public_key) /= 65)
           => /\ r.err.kind = "PublicKeyMismatch"
              /\ ~Performed(r.steps, "public_key[0]")
              /\ ~Performed(r.steps, "public_key[1..]")

====
